---- MODULE Spec2Model ----
(***************************************************************************)
(* A model of function_app.py: the timer-driven producer                   *)
(* (create_message_timer), the queue-triggered consumer (process_message), *)
(* the synthetic workload generator (generate_random_messages) and the     *)
(* fan-out/fan-in orchestrator (hello_orchestrator).                        *)
(*                                                                         *)
(* The table store, the storage queue, the text-generation service and the *)
(* durable-functions host are the environment: they are modelled by the    *)
(* behaviour the handlers rely on (query by filter, get by key, replace,   *)
(* transactional create, send, at-least-once delivery, replay of the       *)
(* orchestrator function against its history).                             *)
(***************************************************************************)
EXTENDS Naturals, Sequences, FiniteSets, Bags, TLC

(***************************************************************************)
(* Bounds of the model.                                                    *)
(***************************************************************************)
\* Number of distinct values uuid.uuid4() can return (so collisions happen).
MaxUuid == 2
\* MESSAGES_PER_MINUTE: the configured number of records per generator run.
MessagesPerMinute == 2
\* Number of generator invocations explored.
MaxGenRuns == 2
\* Number of distinct values random.randint(1, 99999) can return.
MaxBugId == 1
\* Number of distinct jokes the text-generation service can return.
MaxJoke == 1
\* Number of distinct explanations the text-generation service can return.
MaxContext == 2
\* Largest wall-clock reading.
MaxClock == 1
\* Largest number of messages in the queue, visible or in flight.
MaxQueue == 2
\* Number of queue-trigger invocations that can run at the same time.
MaxHandlers == 2
\* Messages of other clients of the queue outstanding at a time.
MaxForeign == 1
\* Number of activity tasks hello_orchestrator dispatches (the source
\* dispatches range(5000); the model scales the fan-out down).
NumTasks == 3
\* Number of span ids the tracer draws from.
MaxSpan == 2
\* Number of distinct values heavy_computation can return.
MaxSum == 2

(***************************************************************************)
(* Values.                                                                 *)
(***************************************************************************)
None == "None"

\* str(uuid.uuid4())
Uuids == {"u" \o ToString(i) : i \in 1..MaxUuid}
UuidIndex(u) == CHOOSE i \in 1..MaxUuid : "u" \o ToString(i) = u

\* str(random.randint(1, 99999))
BugIds == {ToString(i) : i \in 1..MaxBugId}

\* The strings generate_random_joke() can return.
Jokes == {"joke" \o ToString(i) : i \in 1..MaxJoke}

\* The strings summarize_text(joke) can return: the service is free to word
\* its answer differently on every call.
Contexts == {"ctx" \o ToString(i) : i \in 1..MaxContext}

\* datetime.datetime.utcnow().isoformat()
isoformat(t) == "t" \o ToString(t)

Handlers == 1..MaxHandlers

VARIABLES
    store,      \* the table: (PartitionKey, RowKey) -> entity
    queue,      \* the visible messages of the storage queue (a bag)
    now,        \* the wall clock
    timer,      \* the running create_message_timer invocation
    handler,    \* the process_message invocations
    generator,  \* the generate_random_messages invocations
    instance,   \* the orchestration instance of hello_orchestrator
    history     \* the instance's history: the events the host has recorded

vars == <<store, queue, now, timer, handler, generator, instance, history>>

(***************************************************************************)
(* Python dict access.                                                     *)
(***************************************************************************)
\* d.get(k, default)
Get(d, k, default) == IF k \in DOMAIN d THEN d[k] ELSE default

\* d[k] = v on a dict that may or may not hold k
SetItem(d, k, v) == [x \in DOMAIN d \cup {k} |-> IF x = k THEN v ELSE d[x]]

(***************************************************************************)
(* The wire format: json.dumps, str.encode('utf-8'), base64.               *)
(***************************************************************************)
\* The key order of the dict literal of create_message_timer.
MessageKeys == <<"PartitionKey", "RowKey", "BugId", "Joke">>

\* json.dumps(message): the text lists the members in the dict's order.
json_dumps(d) == [i \in 1..Len(MessageKeys) |-> <<MessageKeys[i], d[MessageKeys[i]]>>]

\* message.encode('utf-8')
utf8_encode(text) == [utf8 |-> text]

\* BinaryBase64EncodePolicy().encode(content=message_bytes)
b64_encode(bytes) == [b64 |-> bytes]

\* The host's base64 decoding of the queue message: msg.get_body()
get_body(m) == m.b64

\* bytes.decode('utf-8')
utf8_decode(bytes) == bytes.utf8

\* A text is a JSON document when every member has its value; a text cut off
\* inside a member is none, and json.loads raises JSONDecodeError on it.
JsonValid(text) == \A i \in DOMAIN text : Len(text[i]) = 2

\* json.loads(text): a dict; of a repeated member the last one wins.
json_loads(text) ==
    [k \in {text[i][1] : i \in DOMAIN text} |->
        LET last == CHOOSE i \in DOMAIN text :
                        /\ text[i][1] = k
                        /\ \A j \in DOMAIN text : text[j][1] = k => j <= i
        IN  text[last][2]]

(***************************************************************************)
(* The table store.                                                        *)
(***************************************************************************)
KeyOf(entity) == <<entity.PartitionKey, entity.RowKey>>

\* Tables order entities by (PartitionKey, RowKey).
KeyLess(a, b) ==
    \/ UuidIndex(a[1]) < UuidIndex(b[1])
    \/ a[1] = b[1] /\ UuidIndex(a[2]) < UuidIndex(b[2])

RECURSIVE SortedKeys(_)
SortedKeys(ks) ==
    IF ks = {} THEN <<>>
    ELSE LET k == CHOOSE a \in ks : \A b \in ks \ {a} : KeyLess(a, b)
         IN  <<k>> \o SortedKeys(ks \ {k})

\* A query without the filter.
query_entities_unfiltered(s) ==
    LET ks == SortedKeys(DOMAIN s)
    IN  [i \in 1..Len(ks) |-> s[ks[i]]]

\* A query with the filter "Status eq 'Processed'".
query_entities_processed(s) ==
    LET ks == SortedKeys({k \in DOMAIN s : s[k].Status = "Processed"})
    IN  [i \in 1..Len(ks) |-> s[ks[i]]]

\* A query that leaves out the entities a message is already queued for, as
\* if the producer kept track of what is in flight.
query_entities_skip_queued(s) ==
    LET queued == {k \in DOMAIN s :
                     \E m \in BagToSet(queue) :
                        LET d == json_loads(utf8_decode(get_body(m)))
                        IN  <<d.PartitionKey, d.RowKey>> = k}
        ks == SortedKeys({k \in DOMAIN s : s[k].Status = "New" /\ k \notin queued})
    IN  [i \in 1..Len(ks) |-> s[ks[i]]]

\* table_client.query_entities("Status eq 'New'")
query_entities(s) ==
    LET ks == SortedKeys({k \in DOMAIN s : s[k].Status = "New"})
    IN  [i \in 1..Len(ks) |-> s[ks[i]]]

\* table_client.get_entity(partition_key, row_key) finds an entity
EntityExists(s, pk, rk) == <<pk, rk>> \in DOMAIN s
\* A fetch that returns the key properties only (as a projection would).
get_entity_keys_only(s, pk, rk) == [PartitionKey |-> pk, RowKey |-> rk]

get_entity(s, pk, rk) == s[<<pk, rk>>]

\* table_client.update_entity(entity, mode=UpdateMode.REPLACE): the stored
\* entity becomes exactly the given one.
update_entity(s, entity) == [s EXCEPT ![KeyOf(entity)] = entity]

\* The conflicts of ("upsert", entity) operations: an entity the table
\* already holds is no conflict.
TransactionConflict_upsert(s, ops) ==
    \E i, j \in DOMAIN ops : i # j /\ KeyOf(ops[i][2]) = KeyOf(ops[j][2])

\* ("create", entity) operations of one transaction conflict when two of
\* them name the same entity or one names an entity the table already holds.
TransactionConflict(s, ops) ==
    \/ \E i, j \in DOMAIN ops : i # j /\ KeyOf(ops[i][2]) = KeyOf(ops[j][2])
    \/ \E i \in DOMAIN ops : KeyOf(ops[i][2]) \in DOMAIN s

\* table_client.submit_transaction(batch_operations), when it succeeds: every
\* entity of the batch is created, in one write.
submit_transaction(s, ops) ==
    LET new == {KeyOf(ops[i][2]) : i \in DOMAIN ops}
    IN  [k \in DOMAIN s \cup new |->
            IF k \in new
            THEN LET i == CHOOSE i \in DOMAIN ops : KeyOf(ops[i][2]) = k
                 IN  ops[i][2]
            ELSE s[k]]

(***************************************************************************)
(* The storage queue.                                                      *)
(***************************************************************************)
\* queue_client.send_message(content)
send_message(q, content) == q (+) SetToBag({content})

\* The host takes a message off the queue for one invocation.
receive_message(q, m) == q (-) SetToBag({m})

InFlight == Cardinality({h \in Handlers : handler[h].pc # "idle"})
QueueLoad == BagCardinality(queue) + InFlight

(***************************************************************************)
(* create_message_timer                                                    *)
(***************************************************************************)
\* The message dict built from one entity.
BuildMessage(entity) ==
    [PartitionKey |-> Get(entity, "PartitionKey", "UnknownPartitionKey"),
     RowKey       |-> Get(entity, "RowKey", "UnknownRowKey"),
     BugId        |-> Get(entity, "BugId", "UnknownBugId"),
     Joke         |-> Get(entity, "Joke", "UnknownJoke")]

\* What goes on the wire for one entity.
EncodeMessage(entity) == b64_encode(utf8_encode(json_dumps(BuildMessage(entity))))

IdleTimer == [pc |-> "idle", entities |-> <<>>, sent |-> <<>>]

\* The timer fires: the query for the entities in 'New' status.
create_message_timer_query ==
    /\ timer.pc = "idle"
    /\ LET entities == query_entities(store)
       IN  timer' = IF entities = <<>>
                    THEN IdleTimer
                    ELSE [pc |-> "sending", entities |-> entities, sent |-> <<>>]
    /\ UNCHANGED <<instance, history, store, queue, now, handler, generator>>

\* A producer that marks the entity it has just sent as "Queued" in the
\* table.
create_message_timer_send_marks ==
    /\ timer.pc = "sending"
    /\ QueueLoad < MaxQueue
    /\ LET entity == timer.entities[Len(timer.sent) + 1]
           sent   == Append(timer.sent, json_dumps(BuildMessage(entity)))
       IN  /\ queue' = send_message(queue, EncodeMessage(entity))
           /\ store' = update_entity(store, SetItem(entity, "Status", "Queued"))
           /\ timer' = IF Len(sent) = Len(timer.entities)
                       THEN IdleTimer
                       ELSE [timer EXCEPT !.sent = sent]
    /\ UNCHANGED <<instance, history, now, handler, generator>>

\* One iteration of the loop: a message is built, encoded and sent, and the
\* span records "Message sent to queue". The invocation returns after the
\* last entity. (The queue of the model holds at most MaxQueue messages; a
\* send waits for room.)
create_message_timer_send ==
    /\ timer.pc = "sending"
    /\ QueueLoad < MaxQueue
    /\ LET entity == timer.entities[Len(timer.sent) + 1]
           sent   == Append(timer.sent, json_dumps(BuildMessage(entity)))
       IN  /\ queue' = send_message(queue, EncodeMessage(entity))
           /\ timer' = IF Len(sent) = Len(timer.entities)
                       THEN IdleTimer
                       ELSE [timer EXCEPT !.sent = sent]
    /\ UNCHANGED <<instance, history, store, now, handler, generator>>

(***************************************************************************)
(* process_message                                                         *)
(***************************************************************************)
\* A local variable that holds nothing yet.
Unset == <<>>

IdleHandler == [pc |-> "idle", msg |-> Unset, entity |-> Unset, exc |-> None]

\* summarize_text(text): the answers the service may give.
summarize_text(text) == Contexts

\* An invocation that writes the "Processed" copy back as soon as it has
\* fetched it, before the enrichment call.
process_message_get_writes_first(h, m) ==
    /\ handler[h].pc = "idle"
    /\ m \in BagToSet(queue)
    /\ queue' = receive_message(queue, m)
    /\ LET message_dict  == json_loads(utf8_decode(get_body(m)))
           partition_key == Get(message_dict, "PartitionKey", None)
           row_key       == Get(message_dict, "RowKey", None)
           entity        == SetItem(get_entity(store, partition_key, row_key),
                                    "Status", "Processed")
       IN  IF EntityExists(store, partition_key, row_key)
           THEN /\ handler' = [handler EXCEPT ![h] =
                      [pc |-> "enrich", msg |-> m, entity |-> entity, exc |-> None]]
                /\ store' = update_entity(store, entity)
           ELSE /\ handler' = [handler EXCEPT ![h] =
                      [pc |-> "raised", msg |-> m, entity |-> Unset,
                       exc |-> "ResourceNotFoundError"]]
                /\ store' = store
    /\ UNCHANGED <<instance, history, now, timer, generator>>

\* An invocation that, finding no entity under the key of the message, goes
\* on with an entity made of the fields of the message.
process_message_get_or_default(h, m) ==
    /\ handler[h].pc = "idle"
    /\ m \in BagToSet(queue)
    /\ queue' = receive_message(queue, m)
    /\ LET message_content == utf8_decode(get_body(m))
       IN  IF ~JsonValid(message_content)
           THEN handler' = [handler EXCEPT ![h] =
                    [pc |-> "raised", msg |-> m, entity |-> Unset,
                     exc |-> "JSONDecodeError"]]
           ELSE
           LET message_dict  == json_loads(message_content)
               partition_key == Get(message_dict, "PartitionKey", None)
               row_key       == Get(message_dict, "RowKey", None)
           IN  IF partition_key = None \/ row_key = None
               THEN handler' = [handler EXCEPT ![h] =
                        [pc |-> "raised", msg |-> m, entity |-> Unset,
                         exc |-> "TypeError"]]
               ELSE handler' = [handler EXCEPT ![h] =
                        [pc     |-> "enrich",
                         msg    |-> m,
                         entity |-> SetItem(
                             IF EntityExists(store, partition_key, row_key)
                             THEN get_entity(store, partition_key, row_key)
                             ELSE [PartitionKey |-> partition_key,
                                   RowKey |-> row_key],
                             "Status", "Processed"),
                         exc    |-> None]]
    /\ UNCHANGED <<instance, history, store, now, timer, generator>>

\* The host hands message m to invocation h, which parses it and fetches the
\* entity it names; the fetched copy is marked "Processed" in memory.
\* json.loads raises on a text that is no JSON document, get_entity raises
\* TypeError on a key that is None (a member the message lacks) and
\* ResourceNotFoundError on a key the table does not hold.
process_message_get(h, m) ==
    /\ handler[h].pc = "idle"
    /\ m \in BagToSet(queue)
    /\ queue' = receive_message(queue, m)
    /\ LET message_content == utf8_decode(get_body(m))
       IN  IF ~JsonValid(message_content)
           THEN handler' = [handler EXCEPT ![h] =
                    [pc |-> "raised", msg |-> m, entity |-> Unset,
                     exc |-> "JSONDecodeError"]]
           ELSE
           LET message_dict  == json_loads(message_content)
               partition_key == Get(message_dict, "PartitionKey", None)
               row_key       == Get(message_dict, "RowKey", None)
           IN  IF partition_key = None \/ row_key = None
               THEN handler' = [handler EXCEPT ![h] =
                        [pc |-> "raised", msg |-> m, entity |-> Unset,
                         exc |-> "TypeError"]]
               ELSE IF EntityExists(store, partition_key, row_key)
               THEN handler' = [handler EXCEPT ![h] =
                        [pc     |-> "enrich",
                         msg    |-> m,
                         entity |-> SetItem(get_entity(store, partition_key, row_key),
                                            "Status", "Processed"),
                         exc    |-> None]]
               ELSE handler' = [handler EXCEPT ![h] =
                        [pc |-> "raised", msg |-> m, entity |-> Unset,
                         exc |-> "ResourceNotFoundError"]]
    /\ UNCHANGED <<instance, history, store, now, timer, generator>>

\* An invocation that sets JokeContext but leaves Updated_at out.
process_message_summarize_no_timestamp(h) ==
    /\ handler[h].pc = "enrich"
    /\ LET joke == Get(json_loads(utf8_decode(get_body(handler[h].msg))), "Joke", None)
       IN  \E joke_context \in summarize_text(joke) :
             handler' = [handler EXCEPT
                ![h].pc = "update",
                ![h].entity = SetItem(@, "JokeContext", joke_context)]
    /\ UNCHANGED <<instance, history, store, queue, now, timer, generator>>

\* summarize_text(joke) answers: the entity gets JokeContext and Updated_at.
process_message_summarize(h) ==
    /\ handler[h].pc = "enrich"
    /\ LET joke == Get(json_loads(utf8_decode(get_body(handler[h].msg))), "Joke", None)
       IN  \E joke_context \in summarize_text(joke) :
             handler' = [handler EXCEPT
                ![h].pc = "update",
                ![h].entity = SetItem(SetItem(@, "JokeContext", joke_context),
                                      "Updated_at", isoformat(now))]
    /\ UNCHANGED <<instance, history, store, queue, now, timer, generator>>

\* An invocation that records the exception of the enrichment call and
\* then returns as if nothing had happened.
process_message_summarize_fail_swallowed(h) ==
    /\ handler[h].pc = "enrich"
    /\ handler' = [handler EXCEPT ![h] = IdleHandler]
    /\ UNCHANGED <<instance, history, store, queue, now, timer, generator>>

\* summarize_text(joke) fails: the exception is recorded and raised.
process_message_summarize_fail(h) ==
    /\ handler[h].pc = "enrich"
    /\ handler' = [handler EXCEPT ![h].pc = "raised", ![h].exc = "OpenAIError"]
    /\ UNCHANGED <<instance, history, store, queue, now, timer, generator>>

\* A write-back that is conditional on the entity being unchanged since it
\* was fetched as 'New': the write of an invocation that comes second is
\* dropped.
process_message_update_if_new(h) ==
    /\ handler[h].pc = "update"
    /\ store' = IF store[KeyOf(handler[h].entity)].Status = "New"
                THEN update_entity(store, handler[h].entity)
                ELSE store
    /\ handler' = [handler EXCEPT ![h] = IdleHandler]
    /\ UNCHANGED <<instance, history, queue, now, timer, generator>>

\* table_client.update_entity(entity, mode=REPLACE); the invocation returns
\* and the host deletes the message. (Nothing deletes entities, so the entity
\* fetched is still there to be replaced.)
process_message_update(h) ==
    /\ handler[h].pc = "update"
    /\ store' = update_entity(store, handler[h].entity)
    /\ handler' = [handler EXCEPT ![h] = IdleHandler]
    /\ UNCHANGED <<instance, history, queue, now, timer, generator>>

\* The invocation raised: the host makes the message visible again.
host_redeliver(h) ==
    /\ handler[h].pc = "raised"
    /\ queue' = send_message(queue, handler[h].msg)
    /\ handler' = [handler EXCEPT ![h] = IdleHandler]
    /\ UNCHANGED <<instance, history, store, now, timer, generator>>

(***************************************************************************)
(* generate_random_messages                                                *)
(***************************************************************************)
\* generate_random_joke() either answers with a joke or raises.
JokeFailure == "OpenAIError"
JokeResults == Jokes \cup {JokeFailure}

\* What one iteration of the loop draws: a row key, a bug id, a joke.
Draws == [row_key : Uuids, bug_id : BugIds, joke : JokeResults]

\* A message dict with a partition key of its own (the row key's uuid).
NewEntity_own_partition(partition_key, draw, t) ==
    [PartitionKey |-> draw.row_key,
     RowKey       |-> draw.row_key,
     BugId        |-> draw.bug_id,
     Status       |-> "New",
     Joke         |-> draw.joke,
     Created_at   |-> isoformat(t)]

\* The message dict of one iteration.
NewEntity(partition_key, draw, t) ==
    [PartitionKey |-> partition_key,
     RowKey       |-> draw.row_key,
     BugId        |-> draw.bug_id,
     Status       |-> "New",
     Joke         |-> draw.joke,
     Created_at   |-> isoformat(t)]

\* The invocation is not running: it has ended runs times, the last time
\* with exception exc (None when it returned).
IdleGenerator(runs, exc) ==
    [pc |-> "idle", runs |-> runs, exc |-> exc,
     partition_key |-> None, batch_operations |-> <<>>]

\* The timer fires (the host starts no invocation while one is running):
\* batch_operations = [] and partition_key = str(uuid.uuid4()).
generate_random_messages_start ==
    /\ generator.pc = "idle"
    /\ generator.runs < MaxGenRuns
    /\ \E partition_key \in Uuids :
         generator' = [generator EXCEPT !.pc = "loop",
                                        !.partition_key = partition_key]
    /\ UNCHANGED <<instance, history, store, queue, now, timer, handler>>

\* An iteration that puts a stock text in the place of a joke the service
\* failed to deliver.
generate_random_messages_item_default_joke ==
    /\ generator.pc = "loop"
    /\ Len(generator.batch_operations) < MessagesPerMinute
    /\ \E draw \in Draws :
         LET d == IF draw.joke = JokeFailure
                  THEN [draw EXCEPT !.joke = "UnknownJoke"]
                  ELSE draw
         IN  generator' = [generator EXCEPT !.batch_operations =
                 Append(@, <<"create",
                             NewEntity(generator.partition_key, d, now)>>)]
    /\ UNCHANGED <<instance, history, store, queue, now, timer, handler>>

\* One iteration of the loop: a row key and a bug id are drawn, the call to
\* generate_random_joke() answers or raises, and when it has answered the
\* clock is read for Created_at and the message joins batch_operations. An
\* exception leaves the loop: it is recorded and raised, and the batch is
\* dropped with the invocation.
generate_random_messages_item ==
    /\ generator.pc = "loop"
    /\ Len(generator.batch_operations) < MessagesPerMinute
    /\ \E draw \in Draws :
         IF draw.joke = JokeFailure
         THEN generator' = IdleGenerator(generator.runs + 1, "OpenAIError")
         ELSE generator' = [generator EXCEPT !.batch_operations =
                  Append(@, <<"create",
                              NewEntity(generator.partition_key, draw, now)>>)]
    /\ UNCHANGED <<instance, history, store, queue, now, timer, handler>>

\* table_client.submit_transaction(batch_operations) after the last
\* iteration, the only write of the invocation: the transaction fails as a
\* whole (recorded and raised) or stores the whole batch, after which the
\* invocation sleeps; its locals are not read again.
generate_random_messages_submit ==
    /\ generator.pc = "loop"
    /\ Len(generator.batch_operations) = MessagesPerMinute
    /\ IF TransactionConflict(store, generator.batch_operations)
       THEN /\ store' = store
            /\ generator' = IdleGenerator(generator.runs + 1,
                                          "TableTransactionError")
       ELSE /\ store' = submit_transaction(store, generator.batch_operations)
            /\ generator' = [generator EXCEPT !.pc = "sleep",
                                              !.partition_key = None,
                                              !.batch_operations = <<>>]
    /\ UNCHANGED <<instance, history, queue, now, timer, handler>>

\* time.sleep(10) is over: the invocation returns.
generate_random_messages_return ==
    /\ generator.pc = "sleep"
    /\ generator' = IdleGenerator(generator.runs + 1, None)
    /\ UNCHANGED <<instance, history, store, queue, now, timer, handler>>

(***************************************************************************)
(* hello_orchestrator and heavy_computation                                *)
(***************************************************************************)
\* The values np.sum(result) can take.
Sums == 1..MaxSum

TaskIds == 0..(NumTasks - 1)

\* The events of kind k in history hist, in order.
EventsOf(hist, k) == SelectSeq(hist, LAMBDA e : e.kind = k)

\* Whether task id has reported (completed or failed) in hist.
Reported(hist, id) ==
    \E i \in DOMAIN hist :
        hist[i].kind \in {"TaskCompleted", "TaskFailed"} /\ hist[i].id = id


\* A task list built from range(1, N + 1).
hello_orchestrator_tasks_from_one(hist) ==
    [i \in 1..NumTasks |-> [name |-> "heavy_computation", input |-> i]]

\* tasks = [context.call_activity("heavy_computation", input_data)
\*          for input_data in range(N)]: the dispatch decisions of one
\* execution of the orchestrator function, in order. hist is the history the
\* execution replays; the list does not read it.
hello_orchestrator_tasks(hist) ==
    [i \in 1..NumTasks |-> [name |-> "heavy_computation", input |-> i - 1]]

\* context.task_all(tasks) against history hist, for n tasks with ids
\* 0..n-1: still running, failed with the first error reported, or
\* completed with the children's results in the order of the tasks.
task_all(hist, n) ==
    LET failed == EventsOf(hist, "TaskFailed")
        result(id) == LET i == CHOOSE i \in DOMAIN hist :
                                   hist[i].kind = "TaskCompleted" /\ hist[i].id = id
                      IN  hist[i].result
    IN  IF failed # <<>>
        THEN [state |-> "failed", value |-> failed[1].reason]
        ELSE IF \A id \in 0..(n - 1) : Reported(hist, id)
        THEN [state |-> "succeeded", value |-> [i \in 1..n |-> result(i - 1)]]
        ELSE [state |-> "running", value |-> None]

\* http_start: client.start_new(function_name) creates the instance.
http_start ==
    /\ instance.status = "NotStarted"
    /\ instance' = [instance EXCEPT !.status = "Running"]
    /\ history' = <<[kind |-> "ExecutionStarted"]>>
    /\ UNCHANGED <<store, queue, now, timer, handler, generator>>

\* The span ids the tracer can draw for a new span.
SpanIds == 1..MaxSpan

\* with tracer.start_as_current_span("hello_orchestrator", ...) as span: the
\* span the orchestrator function opens on every execution, with the id the
\* tracer draws and the clock reading of its start; it gets the attribute
\* "orchestrator.results" when the function runs on past the fan-in, and is
\* exported when the execution leaves the with block.
hello_orchestrator_span(span_id, t, fanin) ==
    [span_id    |-> span_id,
     start_time |-> isoformat(t),
     attributes |-> IF fanin.state = "succeeded"
                    THEN <<<<"orchestrator.results", fanin.value>>>>
                    ELSE <<>>]

\* One execution of hello_orchestrator by the host, from its start, against
\* history hist0, with the span id the tracer draws and the clock reading t:
\* the span is opened, the tasks are created (and scheduled, the first
\* time), the generator stops at yield context.task_all(tasks) while the
\* fan-in is running, resumes with the results when it has succeeded (and
\* returns them), and has the error thrown into it when it has failed;
\* nothing catches the error, so the instance fails.
hello_orchestrator_run(hist0, span_id, t) ==
    LET tasks     == hello_orchestrator_tasks(hist0)
        scheduled == EventsOf(hist0, "TaskScheduled")
        hist      == IF scheduled = <<>>
                     THEN hist0 \o [i \in 1..Len(tasks) |->
                              [kind  |-> "TaskScheduled", id |-> i - 1,
                               name  |-> tasks[i].name,
                               input |-> tasks[i].input]]
                     ELSE hist0
        fanin     == task_all(hist, Len(tasks))
    IN  [history   |-> hist,
         status    |-> CASE fanin.state = "running"   -> "Running"
                         [] fanin.state = "succeeded" -> "Completed"
                         [] fanin.state = "failed"    -> "Failed",
         output    |-> fanin.value,
         decisions |-> tasks,
         span      |-> hello_orchestrator_span(span_id, t, fanin)]

\* The host executes the orchestrator function whenever the history has
\* events the instance has not been run against.
hello_orchestrator ==
    /\ instance.status = "Running"
    /\ instance.replayed < Len(history)
    /\ \E span_id \in SpanIds :
         LET run == hello_orchestrator_run(history, span_id, now)
         IN  /\ history' = run.history
             /\ instance' = [status    |-> run.status,
                             output    |-> run.output,
                             decisions |-> run.decisions,
                             replayed  |-> Len(run.history),
                             span      |-> run.span]
    /\ UNCHANGED <<store, queue, now, timer, handler, generator>>

\* A scheduled task that has not reported yet.
Outstanding(id) ==
    /\ instance.status = "Running"
    /\ \E i \in DOMAIN history :
          history[i].kind = "TaskScheduled" /\ history[i].id = id
    /\ ~Reported(history, id)

\* heavy_computation(input) returns result_sum.
heavy_computation(id) ==
    /\ Outstanding(id)
    /\ \E result_sum \in Sums :
         history' = Append(history,
                        [kind |-> "TaskCompleted", id |-> id, result |-> result_sum])
    /\ UNCHANGED <<instance, store, queue, now, timer, handler, generator>>

\* heavy_computation(input) raises (the allocation of the matrices fails).
heavy_computation_raise(id) ==
    /\ Outstanding(id)
    /\ history' = Append(history,
                        [kind |-> "TaskFailed", id |-> id, reason |-> "MemoryError"])
    /\ UNCHANGED <<instance, store, queue, now, timer, handler, generator>>

(***************************************************************************)
(* Other clients of the storage queue. The queue trigger hands every       *)
(* message of the queue to process_message, whoever has put it there: a    *)
(* well-formed message for any key, one that lacks a member, one cut off.  *)
(***************************************************************************)
FullTexts ==
    {json_dumps([PartitionKey |-> p, RowKey |-> r, BugId |-> b, Joke |-> j]) :
        p \in Uuids, r \in Uuids, b \in BugIds, j \in Jokes}

\* The text without its i-th member.
Without(text, i) ==
    [j \in 1..(Len(text) - 1) |-> IF j < i THEN text[j] ELSE text[j + 1]]

\* The text cut off after the key of its last member.
Truncated(text) == [text EXCEPT ![Len(text)] = <<text[Len(text)][1]>>]

ForeignTexts ==
    FullTexts
    \cup {Without(t, i) : t \in FullTexts, i \in 1..Len(MessageKeys)}
    \cup {Truncated(t) : t \in FullTexts}

\* The messages on the queue or with an invocation that
\* create_message_timer would not send for any entity of the table.
IsForeign(m) == \A k \in DOMAIN store : m # EncodeMessage(store[k])
ForeignLoad ==
    BagCardinality([m \in {x \in BagToSet(queue) : IsForeign(x)} |-> queue[m]])
    + Cardinality({h \in Handlers : handler[h].pc # "idle" /\ IsForeign(handler[h].msg)})

\* A client puts a message with the given text on the queue.
external_send_message(text) ==
    /\ QueueLoad < MaxQueue
    /\ ForeignLoad < MaxForeign
    /\ queue' = send_message(queue, b64_encode(utf8_encode(text)))
    /\ UNCHANGED <<instance, history, store, now, timer, handler, generator>>

(***************************************************************************)
(* The clock, and the system.                                              *)
(***************************************************************************)
Tick ==
    /\ now < MaxClock
    /\ now' = now + 1
    /\ UNCHANGED <<instance, history, store, queue, timer, handler, generator>>

Init ==
    /\ store = <<>>
    /\ queue = EmptyBag
    /\ now = 0
    /\ timer = IdleTimer
    /\ handler = [h \in Handlers |-> IdleHandler]
    /\ generator = IdleGenerator(0, None)
    /\ instance = [status |-> "NotStarted", output |-> None,
                   decisions |-> <<>>, replayed |-> 0, span |-> Unset]
    /\ history = <<>>

Next ==
    \/ generate_random_messages_start
    \/ generate_random_messages_item
    \/ generate_random_messages_submit
    \/ generate_random_messages_return
    \/ create_message_timer_query
    \/ create_message_timer_send
    \/ \E h \in Handlers : \E m \in BagToSet(queue) : process_message_get(h, m)
    \/ \E h \in Handlers : process_message_summarize(h)
    \/ \E h \in Handlers : process_message_summarize_fail(h)
    \/ \E h \in Handlers : process_message_update(h)
    \/ \E h \in Handlers : host_redeliver(h)
    \/ Tick

Spec == Init /\ [][Next]_vars

\* The orchestration alone.
OrchNext ==
    \/ http_start
    \/ hello_orchestrator
    \/ \E id \in TaskIds : heavy_computation(id)
    \/ \E id \in TaskIds : heavy_computation_raise(id)
    \/ Tick

OrchSpec == Init /\ [][OrchNext]_vars

\* The pipeline with other clients writing to the queue, after one generator
\* invocation has failed on its joke call.
EnvNext ==
    \/ Next
    \/ \E text \in ForeignTexts : external_send_message(text)

(***************************************************************************)
(* Fairness: the timer fires every minute, the host delivers every visible *)
(* message and redelivers the message of a failed invocation, a started    *)
(* invocation runs on, and the enrichment call, tried again and again,     *)
(* eventually answers.                                                     *)
(***************************************************************************)
Fairness ==
    /\ WF_vars(create_message_timer_query)
    /\ WF_vars(create_message_timer_send)
    /\ \A h \in Handlers :
         /\ SF_vars(\E m \in BagToSet(queue) : process_message_get(h, m))
         /\ SF_vars(process_message_summarize(h))
         /\ WF_vars(process_message_update(h))
         /\ WF_vars(host_redeliver(h))

\* The pipeline after one generator invocation has failed on its joke call
\* (a state Spec reaches), run on under Fairness.
LiveInit ==
    /\ store = <<>>
    /\ queue = EmptyBag
    /\ now = 0
    /\ timer = IdleTimer
    /\ handler = [h \in Handlers |-> IdleHandler]
    /\ generator = IdleGenerator(MaxGenRuns - 1, "OpenAIError")
    /\ instance = [status |-> "NotStarted", output |-> None,
                   decisions |-> <<>>, replayed |-> 0, span |-> Unset]
    /\ history = <<>>

LiveSpec == LiveInit /\ [][Next]_vars /\ Fairness

EnvSpec == LiveInit /\ [][EnvNext]_vars

(***************************************************************************)
(* Helpers of the properties.                                              *)
(***************************************************************************)
Keys == Uuids \X Uuids

IsNew(k) == k \in DOMAIN store /\ store[k].Status = "New"
IsProcessed(k) == k \in DOMAIN store /\ store[k].Status = "Processed"

\* The fields a wire message carries, read back from the wire.
Decoded(m) == json_loads(utf8_decode(get_body(m)))

\* The record a wire message names.
MsgKey(m) == <<Decoded(m).PartitionKey, Decoded(m).RowKey>>

\* Wire message m carries exactly the identity and payload of entity e.
Carries(m, e) ==
    /\ DOMAIN Decoded(m) = {"PartitionKey", "RowKey", "BugId", "Joke"}
    /\ Decoded(m).PartitionKey = e.PartitionKey
    /\ Decoded(m).RowKey = e.RowKey
    /\ Decoded(m).BugId = e.BugId
    /\ Decoded(m).Joke = e.Joke

\* The fields of a record the consumer does not write.
PreservedFields == {"PartitionKey", "RowKey", "BugId", "Joke", "Created_at"}

\* The step is the start of a producer run that found entities.
ProducerStarts == timer.pc = "idle" /\ timer'.pc = "sending"

\* The step is one iteration of the producer's loop.
ProducerSends == timer.pc = "sending" /\ timer' # timer

\* The step is invocation h writing its entity back and returning.
ConsumerWrites(h) == handler[h].pc = "update" /\ handler'[h].pc = "idle"

\* The step is a generator invocation ending (returning or raising).
GeneratorEnds == generator'.runs = generator.runs + 1

\* The step is a generator invocation storing its batch.
GeneratorWrites == generator.pc = "loop" /\ generator'.pc = "sleep"

(***************************************************************************)
(* C1: one run of create_message_timer enqueues exactly one message per    *)
(* record that is New when the run queries the table, and none for a       *)
(* record that is Processed: the run's query result lists every New record *)
(* once and nothing else, every iteration adds to the queue exactly the    *)
(* message of the next listed entity, and the run ends with the last one.  *)
(***************************************************************************)
C1_OneMessagePerNewRecord ==
    [][ /\ ProducerStarts =>
             /\ Len(timer'.entities) = Cardinality({k \in Keys : IsNew(k)})
             /\ \A k \in Keys : IsNew(k) =>
                    \E i \in DOMAIN timer'.entities : timer'.entities[i] = store[k]
             /\ \A i \in DOMAIN timer'.entities :
                    timer'.entities[i].Status # "Processed"
             /\ queue' = queue
        /\ ProducerSends =>
             LET i == Len(timer.sent) + 1
             IN  /\ \E m \in BagToSet(queue') :
                       /\ queue' = queue (+) SetToBag({m})
                       /\ Carries(m, timer.entities[i])
                 /\ IF i = Len(timer.entities)
                    THEN timer'.pc = "idle"
                    ELSE timer'.pc = "sending" /\ Len(timer'.sent) = i
                         /\ timer'.entities = timer.entities
      ]_vars

\* A run is under way that listed two New records while a third record was
\* already Processed, and it has sent the first message.
C1_Witness ==
    /\ timer.pc = "sending"
    /\ Len(timer.entities) = 2
    /\ Len(timer.sent) = 1
    /\ \E k \in Keys : IsProcessed(k)
    /\ BagCardinality(queue) >= 1

(***************************************************************************)
(* C2: the persisted Status of a record only moves from New to Processed:  *)
(* no step of the generator, the producer or a consumer takes a record     *)
(* that is Processed back to New (or away).                                *)
(***************************************************************************)
C2_StatusMonotonic ==
    [][ \A k \in Keys : IsProcessed(k) => IsProcessed(k)' ]_vars

\* A Processed record is about to be written again by a duplicate delivery,
\* after the generator has run again.
C2_Witness ==
    /\ generator.runs = MaxGenRuns
    /\ \E h \in Handlers :
         /\ handler[h].pc = "update"
         /\ IsProcessed(KeyOf(handler[h].entity))

(***************************************************************************)
(* C3: a failed enrichment call leaves the store as it is, and a record    *)
(* becomes Processed in the store only by the write of an invocation whose *)
(* enrichment call has answered (its entity carries the JokeContext).      *)
(***************************************************************************)
C3_NoStatusWriteWithoutEnrichment ==
    [][ /\ \A h \in Handlers :
             (handler[h].pc = "enrich" /\ handler'[h].pc = "raised") => store' = store
        /\ \A k \in Keys :
             (IsNew(k) /\ IsProcessed(k)') =>
                 \E h \in Handlers :
                    /\ ConsumerWrites(h)
                    /\ KeyOf(handler[h].entity) = k
                    /\ "JokeContext" \in DOMAIN handler[h].entity
                    /\ store'[k] = handler[h].entity
      ]_vars

\* An invocation has raised the enrichment failure and its record is New.
C3_Witness ==
    \E h \in Handlers :
        /\ handler[h].pc = "raised"
        /\ handler[h].exc = "OpenAIError"
        /\ IsNew(MsgKey(handler[h].msg))

(***************************************************************************)
(* C4 as stated: process_message is idempotent. Handling a message for a   *)
(* record that an earlier handling has already made Processed leaves the   *)
(* record in the terminal state of that earlier handling: Status stays     *)
(* Processed, no field is gained, lost or changed other than the           *)
(* enrichment, and the enrichment field is stable (the record is exactly   *)
(* as it was) or recomputed consistently (written again, with the          *)
(* explanation the first handling had stored for the same joke; only the   *)
(* time stamp of the write moves).                                         *)
(***************************************************************************)
C4_Original_SameTerminalState ==
    [][ \A h \in Handlers :
          LET k == KeyOf(handler[h].entity)
              EnrichmentStable == store'[k] = store[k]
              EnrichmentRecomputedConsistently ==
                  /\ store'[k].Joke = store[k].Joke
                  /\ store'[k].JokeContext = store[k].JokeContext
          IN  (ConsumerWrites(h) /\ IsProcessed(k)) =>
                 /\ store'[k].Status = "Processed"
                 /\ DOMAIN store'[k] = DOMAIN store[k]
                 /\ \A f \in PreservedFields : store'[k][f] = store[k][f]
                 /\ EnrichmentStable \/ EnrichmentRecomputedConsistently
      ]_vars

(***************************************************************************)
(* C5 as stated: once the orchestrator is past the fan-in (the instance    *)
(* has ended), every one of the N dispatched tasks has reported and the    *)
(* fan-in has yielded exactly N results.                                   *)
(***************************************************************************)
C5_FanInYieldsAllResults ==
    instance.status \in {"Completed", "Failed"} =>
        /\ \A id \in TaskIds : Reported(history, id)
        /\ instance.status = "Completed"
        /\ Len(instance.output) = NumTasks

(***************************************************************************)
(* C6 as stated: when the orchestrator has seen a task fail, the fan-in    *)
(* still waits for every task, the instance does not fail, and its result  *)
(* lists one entry per task.                                               *)
(***************************************************************************)
C6_FailureIsAPerTaskResult ==
    (/\ EventsOf(history, "TaskFailed") # <<>>
     /\ instance.replayed = Len(history)) =>
        /\ instance.status # "Failed"
        /\ instance.status = "Completed" =>
              /\ \A id \in TaskIds : Reported(history, id)
              /\ Len(instance.output) = NumTasks

(***************************************************************************)
(* C7 as stated: replay determinism of hello_orchestrator. Every execution *)
(* of the orchestrator function issues the dispatch decisions the history  *)
(* records from the first execution (same number of tasks, same names and  *)
(* inputs, same order), and the orchestrator logic makes no                *)
(* nondeterministic call of its own: two executions from the start against *)
(* the same history do the same whatever a random source and the clock     *)
(* deliver to them.                                                        *)
(***************************************************************************)
C7_ReplayDeterminism ==
    instance.decisions # <<>> =>
        LET scheduled == EventsOf(history, "TaskScheduled")
        IN  /\ Len(instance.decisions) = Len(scheduled)
            /\ \A i \in DOMAIN scheduled :
                  /\ instance.decisions[i].name = scheduled[i].name
                  /\ instance.decisions[i].input = scheduled[i].input
            /\ \A s1, s2 \in SpanIds, t1, t2 \in 0..MaxClock :
                  hello_orchestrator_run(history, s1, t1)
                      = hello_orchestrator_run(history, s2, t2)

(***************************************************************************)
(* C8: the store gains records only by a generator invocation that         *)
(* returns: only in the step of its submit_transaction, which adds exactly *)
(* MessagesPerMinute records at once, each under a key the store did not   *)
(* hold, each New, all under one partition key, the records already stored *)
(* untouched; and the invocation that has written does nothing afterwards  *)
(* but return.                                                             *)
(***************************************************************************)
C8_AtomicBatchOfNewRecords ==
    [][ /\ (DOMAIN store' # DOMAIN store \/ GeneratorWrites) =>
             LET new == DOMAIN store' \ DOMAIN store
             IN  /\ GeneratorWrites
                 /\ DOMAIN store \subseteq DOMAIN store'
                 /\ Cardinality(new) = MessagesPerMinute
                 /\ \A k \in new : store'[k].Status = "New" /\ KeyOf(store'[k]) = k
                 /\ \E pk \in Uuids : \A k \in new : k[1] = pk
                 /\ \A k \in DOMAIN store : store'[k] = store[k]
        /\ (generator.pc = "sleep" /\ generator' # generator) =>
             /\ GeneratorEnds
             /\ generator'.exc = None
             /\ store' = store
        /\ (GeneratorEnds /\ generator'.exc = None) => generator.pc = "sleep"
      ]_vars

\* A second invocation has returned: its batch stands beside the first one.
C8_Witness ==
    /\ generator.runs = 2
    /\ generator.exc = None
    /\ Cardinality(DOMAIN store) = 2 * MessagesPerMinute

(***************************************************************************)
(* C9: an invocation of generate_random_messages in which the joke call    *)
(* fails for any item raises the error and writes nothing: no message      *)
(* reaches the batch without a joke the service delivered, the iteration   *)
(* whose call fails ends the invocation with that error, whatever the      *)
(* earlier items drew, and the store is as the invocation found it, since  *)
(* the only write of an invocation is the one it makes after its last      *)
(* iteration.                                                              *)
(***************************************************************************)
C9_JokeFailureWritesNothing ==
    /\ [](\A i \in DOMAIN generator.batch_operations :
            generator.batch_operations[i][2].Joke \in Jokes)
    /\ [][ (GeneratorEnds /\ generator'.exc = "OpenAIError") =>
             /\ store' = store
             /\ generator.pc = "loop"
             /\ Len(generator.batch_operations) < MessagesPerMinute ]_vars
    /\ [][ (generator' # generator /\ store' # store) =>
             /\ generator.pc = "loop"
             /\ Len(generator.batch_operations) = MessagesPerMinute
             /\ generator'.pc = "sleep" ]_vars

\* An invocation has failed on its joke call after an earlier one had
\* stored its batch.
C9_Witness ==
    /\ generator.runs = 2
    /\ generator.exc = "OpenAIError"
    /\ Cardinality(DOMAIN store) = MessagesPerMinute

(***************************************************************************)
(* C10: a consumer's write-back makes the record its message names         *)
(* Processed, and under Fairness every record that is New is eventually    *)
(* Processed.                                                              *)
(***************************************************************************)
C10_NewIsEventuallyProcessed ==
    /\ [][ \A h \in Handlers :
             ConsumerWrites(h) =>
                \E k \in Keys :
                    /\ k = MsgKey(handler[h].msg)
                    /\ k = KeyOf(handler[h].entity)
                    /\ IsProcessed(k)' ]_vars
    /\ \A k \in Keys : IsNew(k) ~> IsProcessed(k)

\* Every record of the batch has been processed and the queue has drained.
C10_Witness ==
    /\ Cardinality({k \in Keys : IsProcessed(k)}) = MessagesPerMinute
    /\ queue = EmptyBag
    /\ \A h \in Handlers : handler[h].pc = "idle"

(***************************************************************************)
(* C11: create_message_timer never changes the table: over every step of a *)
(* run of it (the query, each iteration of the loop, the return) every     *)
(* record keeps its Status and all its other fields, and no record is      *)
(* added or removed.                                                       *)
(***************************************************************************)
C11_ProducerLeavesStoreAlone ==
    [][(ProducerStarts \/ ProducerSends) => store' = store]_vars

\* A run is between two sends: the record it has just enqueued is still in
\* the table exactly as the query returned it, in 'New' status.
C11_Witness ==
    /\ timer.pc = "sending"
    /\ Len(timer.sent) = 1
    /\ Len(timer.entities) > 1
    /\ IsNew(KeyOf(timer.entities[1]))
    /\ store[KeyOf(timer.entities[1])] = timer.entities[1]
    /\ \E m \in BagToSet(queue) : Carries(m, timer.entities[1])

\* Wire message m is a JSON document with both key members, and the table
\* holds no record under that key.
NamesNoRecord(m) ==
    /\ JsonValid(utf8_decode(get_body(m)))
    /\ {"PartitionKey", "RowKey"} \subseteq DOMAIN Decoded(m)
    /\ MsgKey(m) \notin DOMAIN store

(***************************************************************************)
(* C12: when process_message is handed a message whose (PartitionKey,      *)
(* RowKey) names no record of the table, the invocation raises             *)
(* ResourceNotFoundError without reaching the enrichment call and without  *)
(* writing: the table is as it was, and the only thing that follows in the *)
(* invocation is the host taking the failure and making the message        *)
(* visible again.                                                          *)
(***************************************************************************)
C12_NotFoundIsRaised ==
    [][\A h \in Handlers :
        /\ \A m \in BagToSet(queue) :
             (handler[h].pc = "idle" /\ handler'[h].pc # "idle"
              /\ handler'[h].msg = m /\ NamesNoRecord(m))
             => /\ handler'[h].pc = "raised"
                /\ handler'[h].exc = "ResourceNotFoundError"
                /\ store' = store
        /\ (handler[h].pc = "raised" /\ handler[h].exc = "ResourceNotFoundError"
            /\ handler'[h] # handler[h])
           => /\ handler'[h].pc = "idle"
              /\ store' = store
              /\ queue' = send_message(queue, handler[h].msg)]_vars

\* An invocation has raised ResourceNotFoundError on a message for a key the
\* table does not hold, while the table holds other records.
C12_Witness ==
    \E h \in Handlers :
        /\ handler[h].pc = "raised"
        /\ handler[h].exc = "ResourceNotFoundError"
        /\ NamesNoRecord(handler[h].msg)
        /\ store # <<>>

\* A message for record k is on the queue or with an invocation.
Pending(k) ==
    \/ \E m \in BagToSet(queue) : MsgKey(m) = k
    \/ \E h \in Handlers : handler[h].pc # "idle" /\ MsgKey(handler[h].msg) = k

(***************************************************************************)
(* C13: the producer keeps no track of what it has enqueued: a run that    *)
(* starts while a message for a New record is still on the queue or with   *)
(* an invocation lists that record again, and an iteration adds one more   *)
(* copy of the record's message to the queue whatever the queue already    *)
(* holds. So the queue can hold two messages for one record (the witness). *)
(***************************************************************************)
C13_DuplicateDelivery ==
    [][ /\ ProducerStarts =>
             \A k \in Keys : (IsNew(k) /\ Pending(k)) =>
                 \E i \in DOMAIN timer'.entities : KeyOf(timer'.entities[i]) = k
        /\ ProducerSends =>
             \A m \in BagToSet(queue') :
                 Carries(m, timer.entities[Len(timer.sent) + 1])
                 => CopiesIn(m, queue') = CopiesIn(m, queue) + 1
      ]_vars

\* The queue holds two messages for one record, which is still New; the
\* producer has returned.
C13_Witness ==
    /\ timer.pc = "idle"
    /\ \E m \in BagToSet(queue) : CopiesIn(m, queue) >= 2 /\ IsNew(MsgKey(m))

(***************************************************************************)
(* C14: the consumer's write-back is an unconditional replace: whatever    *)
(* the table holds for the record when invocation h writes (another        *)
(* invocation for the same record may have written since h fetched it),    *)
(* the write succeeds and the stored record becomes exactly the field set  *)
(* h holds, Status Processed included. Of two interleaved invocations the  *)
(* one that writes last determines the stored record.                      *)
(***************************************************************************)
C14_LastWriteWins ==
    [][\A h \in Handlers : ConsumerWrites(h) =>
          \E k \in Keys :
             /\ k = KeyOf(handler[h].entity)
             /\ store'[k] = handler[h].entity
             /\ store'[k].Status = "Processed"
             /\ \A h2 \in Handlers \ {h} :
                   (handler[h2].pc = "update" /\ KeyOf(handler[h2].entity) = k)
                   => /\ handler'[h2] = handler[h2]
                      /\ ENABLED process_message_update(h2)]_vars

\* Two invocations for the same record are both about to write, with
\* different field sets.
C14_Witness ==
    \E h1, h2 \in Handlers :
        /\ h1 # h2
        /\ handler[h1].pc = "update"
        /\ handler[h2].pc = "update"
        /\ KeyOf(handler[h1].entity) = KeyOf(handler[h2].entity)
        /\ handler[h1].entity # handler[h2].entity

\* Wire message m cannot be parsed, or lacks one of the four members.
Malformed(m) ==
    \/ ~JsonValid(utf8_decode(get_body(m)))
    \/ ~({"PartitionKey", "RowKey", "BugId", "Joke"} \subseteq DOMAIN Decoded(m))

(***************************************************************************)
(* C15: a malformed queue message is fatal for the invocation: when        *)
(* process_message is handed a message that cannot be parsed or that lacks *)
(* PartitionKey, RowKey, BugId or Joke, the invocation raises at once and  *)
(* the table is untouched; an invocation that holds such a message never   *)
(* gets to the enrichment call or to the write.                            *)
(***************************************************************************)
C15_MalformedIsFatal ==
    [][\A h \in Handlers :
        /\ \A m \in BagToSet(queue) :
             (handler[h].pc = "idle" /\ handler'[h].pc # "idle"
              /\ handler'[h].msg = m /\ Malformed(m))
             => /\ handler'[h].pc = "raised"
                /\ store' = store
        /\ (handler[h].pc \in {"enrich", "update"})
             => ~Malformed(handler[h].msg)]_vars

(***************************************************************************)
(* C16: no invocation that hit an error returns as if it had succeeded.    *)
(* An invocation of process_message ends in one of two ways only: it has   *)
(* written its entity back, or it has raised, with the exception recorded, *)
(* and the host, seeing the failure, keeps the message. Once it has raised *)
(* it does nothing else, and it writes nothing. An invocation of           *)
(* generate_random_messages returns only after it has stored its batch;    *)
(* one that has not ends with its exception recorded and raised.           *)
(***************************************************************************)
C16_ExceptionsAreReraised ==
    [][ /\ \A h \in Handlers :
             /\ (handler[h].pc # "idle" /\ handler'[h].pc = "idle")
                => \/ /\ handler[h].pc = "update"
                      /\ handler[h].exc = None
                      /\ store' = update_entity(store, handler[h].entity)
                   \/ /\ handler[h].pc = "raised"
                      /\ handler[h].exc # None
                      /\ store' = store
                      /\ queue' = send_message(queue, handler[h].msg)
             /\ (handler[h].pc # "raised" /\ handler'[h].pc = "raised")
                => /\ handler'[h].exc # None
                   /\ store' = store
             /\ (handler[h].pc = "raised" /\ handler'[h] # handler[h])
                => handler'[h].pc = "idle"
        /\ GeneratorEnds =>
             /\ store' = store
             /\ generator'.exc = None <=> generator.pc = "sleep"
        /\ GeneratorWrites => store' # store
      ]_vars

\* The generator invocation has ended with an exception, and a consumer
\* invocation has raised on a message it could not parse or that named no
\* key.
C16_Witness ==
    /\ generator.runs = MaxGenRuns
    /\ generator.exc # None
    /\ \E h \in Handlers :
         /\ handler[h].pc = "raised"
         /\ handler[h].exc \in {"JSONDecodeError", "TypeError"}

(***************************************************************************)
(* C17: hello_orchestrator dispatches heavy_computation with the inputs    *)
(* 0, 1, .., N-1, each once and in increasing order (so pairwise           *)
(* distinct), and all N dispatches are made before it stops at the one     *)
(* fan-in: once the function has been executed, the history holds the N    *)
(* TaskScheduled events, in that order, ahead of every event a task has    *)
(* reported.                                                               *)
(***************************************************************************)
C17_DispatchesZeroToNMinusOne ==
    instance.decisions # <<>> =>
        LET scheduled == EventsOf(history, "TaskScheduled")
        IN  /\ Len(instance.decisions) = NumTasks
            /\ \A i \in 1..NumTasks : instance.decisions[i].input = i - 1
            /\ \A i, j \in 1..NumTasks :
                  i # j => instance.decisions[i].input # instance.decisions[j].input
            /\ Len(scheduled) = NumTasks
            /\ \A i \in 1..NumTasks :
                  /\ scheduled[i].input = i - 1
                  /\ scheduled[i].name = "heavy_computation"
            /\ \A i, j \in DOMAIN history :
                  (history[i].kind = "TaskScheduled"
                   /\ history[j].kind \in {"TaskCompleted", "TaskFailed"})
                  => i < j

\* The orchestrator has dispatched its tasks and waits at the fan-in; no
\* task has reported yet.
C17_Witness ==
    /\ instance.status = "Running"
    /\ instance.decisions # <<>>
    /\ Len(EventsOf(history, "TaskScheduled")) = NumTasks
    /\ \A id \in TaskIds : ~Reported(history, id)

(***************************************************************************)
(* C18: in the table, every record with Status Processed has JokeContext   *)
(* and Updated_at set, and every record with Status New has neither: the   *)
(* Status and the enrichment fields reach the table in one write.          *)
(***************************************************************************)
C18_EnrichmentComesWithStatus ==
    \A k \in DOMAIN store :
        /\ store[k].Status \in {"New", "Processed"}
        /\ store[k].Status = "Processed" =>
              /\ {"JokeContext", "Updated_at"} \subseteq DOMAIN store[k]
              /\ store[k].JokeContext \in Contexts
              /\ store[k].Updated_at \in {isoformat(t) : t \in 0..MaxClock}
        /\ store[k].Status = "New" =>
              {"JokeContext", "Updated_at"} \cap DOMAIN store[k] = {}

\* The table holds a Processed record next to a New one, while an
\* invocation holds the enriched copy of the New one, not yet written.
C18_Witness ==
    /\ \E k \in Keys : IsProcessed(k)
    /\ \E h \in Handlers :
          /\ handler[h].pc = "update"
          /\ IsNew(KeyOf(handler[h].entity))

(***************************************************************************)
(* C19: a process_message invocation that succeeds for record (P, R)       *)
(* changes nothing but that record's Status, JokeContext and Updated_at:   *)
(* the record keeps its PartitionKey, RowKey, BugId, Joke and Created_at,  *)
(* gets no other field, every other record is unchanged, and the set of    *)
(* record identities is unchanged. Identities are added by                 *)
(* generate_random_messages only, and never removed.                       *)
(***************************************************************************)
C19_ConsumerFrame ==
    [][ /\ \A h \in Handlers : ConsumerWrites(h) =>
             \E k \in Keys :
                /\ k = KeyOf(handler[h].entity)
                /\ DOMAIN store' = DOMAIN store
                /\ \A k2 \in DOMAIN store \ {k} : store'[k2] = store[k2]
                /\ PreservedFields \subseteq DOMAIN store'[k]
                /\ \A f \in PreservedFields : store'[k][f] = store[k][f]
                /\ DOMAIN store'[k] =
                      PreservedFields \cup {"Status", "JokeContext", "Updated_at"}
        /\ (DOMAIN store' # DOMAIN store) =>
             /\ GeneratorWrites
             /\ DOMAIN store \subseteq DOMAIN store'
        /\ (\E h \in Handlers : handler'[h] # handler[h]) =>
             DOMAIN store' = DOMAIN store
      ]_vars

\* An invocation is about to write a New record back while the table holds
\* records of two generator runs, one of them already Processed.
C19_Witness ==
    /\ Cardinality(DOMAIN store) = 2 * MessagesPerMinute
    /\ \E k \in Keys : IsProcessed(k)
    /\ \E h \in Handlers :
          /\ handler[h].pc = "update"
          /\ IsNew(KeyOf(handler[h].entity))
          /\ handler[h].entity.Updated_at # handler[h].entity.Created_at

====
